---- MODULE Spec2Model ----
(***************************************************************************)
(* HextechButEfficient: the three scripts                                  *)
(*   scripts/skin_shards_stats/challenges.py  (ChallengeCollectionStats)   *)
(*   scripts/skin_shards_stats/shards.py      (SkinShardsStats)            *)
(*   scripts/settings_backup/import_from_json.py (worker_func)             *)
(* A behaviour runs one script.  The documents the endpoints serve are     *)
(* frozen in Init; the program's locals are the remaining variables.       *)
(* A Python dict is modelled as a function on the set of its keys; the one *)
(* dict whose iteration order reaches the output (skins_by_champion_key)   *)
(* is a sequence of [k, v] entries in insertion order.                     *)
(***************************************************************************)
EXTENDS Integers, Sequences, FiniteSets, TLC

VARIABLES
    script,                         \* which script this behaviour runs
    pc,                             \* position inside its callback / worker_func
    run,                            \* 1 = first invocation, 2 = the re-run
    catalogDoc,                     \* champions.json as served (ordered mapping)
    lootDoc,                        \* /lol-loot/v1/player-loot as served
    ownedDoc,                       \* /lol-inventory/v2/inventory/CHAMPION_SKIN as served
    fetched,                        \* fetches completed in the current invocation
    champ_json,                     \* challenges.py:33
    skins_by_champion_key,          \* challenges.py:35
    unowned_shards_by_champion_id,  \* challenges.py:36
    owned_skins_by_champion_id,     \* challenges.py:37
    table,                          \* challenges.py:42, the rows added so far
    shard_categories,               \* shards.py:27
    outputs,                        \* everything self.output() / print() emitted
    result,                         \* the callback's return value
    backupFiles,                    \* .backup/<item>.json on disk
    item,                           \* index of the for loop of worker_func
    data,                           \* import_from_json.py:15
    requests,                       \* the PATCH requests issued so far
    clientSettings                  \* the settings the game client holds

vars == <<script, pc, run, catalogDoc, lootDoc, ownedDoc, fetched, champ_json,
          skins_by_champion_key, unowned_shards_by_champion_id,
          owned_skins_by_champion_id, table, shard_categories, outputs, result,
          backupFiles, item, data, requests, clientSettings>>

----------------------------------------------------------------------------
(* Bounds of the enumerated documents. *)
MaxSkins  == 2      \* variants per entity
MaxLoot   == 2      \* records in the loot feed
MaxOwned  == 2      \* records in the owned-items feed
MaxCount  == 2      \* largest count field of a loot record

SeqsUpTo(S, n) == UNION {[1..k -> S] : k \in 0..n}

----------------------------------------------------------------------------
(* The catalog document (spec section 6): string key -> {id, name, key,    *)
(* skins: [{id, isBase}]}.  An entry keeps the mapping key (mapKey) and    *)
(* the object's own "key" field apart, as the code reads both.             *)

Roster == << [key |-> "Aatrox",     id |-> 266, name |-> "Aatrox"],
             [key |-> "MonkeyKing", id |-> 62,  name |-> "Wukong"] >>

\* variant i of an entity has id <entity id>00<i-1>, as in the Meraki schema
SkinLists(champId) ==
    UNION {{[i \in 1..n |-> [id |-> champId * 1000 + (i - 1), isBase |-> b[i]]]
              : b \in [1..n -> BOOLEAN]} : n \in 0..MaxSkins}

Entry(c, skins) ==
    [mapKey |-> c.key, key |-> c.key, id |-> c.id, name |-> c.name, skins |-> skins]

\* every ordered choice of distinct entities, every variant list for each
RECURSIVE CatalogsOver(_)
CatalogsOver(avail) ==
    {<<>>} \cup
    UNION {UNION {{<<Entry(Roster[r], sk)>> \o rest
                     : rest \in CatalogsOver(avail \ {r})}
                    : sk \in SkinLists(Roster[r].id)} : r \in avail}

Catalogs == CatalogsOver(1..Len(Roster))

\* the scenario of spec section 8, plus a second entity without variants
ScenarioCatalog ==
    << Entry(Roster[1], << [id |-> 266000, isBase |-> TRUE],
                           [id |-> 266001, isBase |-> FALSE] >>),
       Entry(Roster[2], << >>) >>

----------------------------------------------------------------------------
(* The loot document: a list of records.                                   *)

RENTAL == "SKIN_RENTAL_disenchant"

Statuses == {"OWNED", "NONE"}

LootRecord(dc, st, rec, par, val, cnt) ==
    [displayCategories |-> dc, itemStatus |-> st, disenchantRecipeName |-> rec,
     parentStoreItemId |-> par, value |-> val, count |-> cnt]

\* records that differ in the fields the entity report reads (and in count)
EntityPathRecords ==
    {LootRecord("SKIN", st, rec, par, 520, cnt) :
        st \in Statuses, rec \in {RENTAL, "SKIN_disenchant", "null"},
        par \in {266, 777}, cnt \in {1, MaxCount}}

\* records that differ in the fields the tier report reads
TierPathRecords ==
    {LootRecord(dc, st, RENTAL, 266, val, cnt) :
        dc \in {"SKIN", "CHAMPION"}, st \in Statuses,
        val \in {520, 975}, cnt \in 0..MaxCount}

SmallLoots ==
    { << >>,
      << LootRecord("SKIN", "NONE", RENTAL, 266, 520, 1),
         LootRecord("SKIN", "NONE", RENTAL, 777, 520, 1) >> }

----------------------------------------------------------------------------
(* The owned-items document: a list of {itemId}.                           *)

ItemIds == {266000, 266001, 62000}

OwnedDocs == SeqsUpTo({[itemId |-> x] : x \in ItemIds}, MaxOwned)

----------------------------------------------------------------------------
(* Python dict operations.                                                 *)

EmptyDict == [x \in {} |-> 0]

\* d[k] = v on an insertion-ordered dict: a new key goes last, an existing
\* key keeps its place
DictPut(d, k, v) ==
    IF \E i \in 1..Len(d) : d[i].k = k
    THEN [i \in 1..Len(d) |-> IF d[i].k = k THEN [k |-> k, v |-> v] ELSE d[i]]
    ELSE Append(d, [k |-> k, v |-> v])

\* "if k not in m: m[k] = 1, else: m[k] += 1"
Increment(m, k) ==
    IF k \in DOMAIN m
    THEN [m EXCEPT ![k] = @ + 1]
    ELSE [x \in DOMAIN m \cup {k} |-> IF x = k THEN 1 ELSE m[x]]

\* champ_json[champion_key].  The keys looked up are the "key" fields of the
\* catalog's own objects, which in a catalog document duplicate the mapping
\* keys (spec section 6), so the lookup finds its entry.
Subscript(cj, k) == cj[CHOOSE i \in 1..Len(cj) : cj[i].mapKey = k]

----------------------------------------------------------------------------
(* challenges.py: the three helpers as the code computes them.             *)

\* A variant of FilterSkins that takes the base variant to be the first of
\* the list and drops it by position.
FilterSkinsFirstOnly(skins) ==
    IF skins = << >> THEN << >>
    ELSE IF Head(skins).isBase THEN Tail(skins) ELSE skins

\* the inner loop: "if skin['isBase']: continue; skins.append(skin)"
RECURSIVE FilterSkins(_)
FilterSkins(skins) ==
    IF skins = << >> THEN << >>
    ELSE IF Head(skins).isBase
         THEN FilterSkins(Tail(skins))
         ELSE <<Head(skins)>> \o FilterSkins(Tail(skins))

RECURSIVE SkinsLoop(_, _)
SkinsLoop(champions, acc) ==
    IF champions = << >> THEN acc
    ELSE SkinsLoop(Tail(champions),
                   DictPut(acc, Head(champions).key, FilterSkins(Head(champions).skins)))

get_skins_by_champion_key(cj) == SkinsLoop(cj, << >>)

\* A variant of UnownedStep without the disenchantRecipeName test.
UnownedStepAnyRecipe(acc, rec) ==
    IF rec.itemStatus # "OWNED"
    THEN Increment(acc, rec.parentStoreItemId)
    ELSE acc

\* one loot record of the loop of get_unowned_shards_by_champion_id
UnownedStep(acc, rec) ==
    IF rec.itemStatus # "OWNED"
    THEN IF rec.disenchantRecipeName = RENTAL
         THEN Increment(acc, rec.parentStoreItemId)
         ELSE acc
    ELSE acc

RECURSIVE UnownedLoop(_, _)
UnownedLoop(loot, acc) ==
    IF loot = << >> THEN acc
    ELSE UnownedLoop(Tail(loot), UnownedStep(acc, Head(loot)))

\* A variant of get_unowned_shards_by_champion_id whose accumulator outlives
\* the call (a dict created once instead of at line 95).
get_unowned_shards_kept(loot) == UnownedLoop(loot, unowned_shards_by_champion_id)

get_unowned_shards_by_champion_id(loot) == UnownedLoop(loot, EmptyDict)

\* A variant of OwnedStep that counts once per owned-items record instead of
\* once per variant.
RECURSIVE OwnedStepPerRecord(_, _, _, _)
OwnedStepPerRecord(acc, skin, champion_id, owned_skin_ids) ==
    IF owned_skin_ids = << >> THEN acc
    ELSE OwnedStepPerRecord(
            IF Head(owned_skin_ids) = skin.id THEN Increment(acc, champion_id) ELSE acc,
            skin, champion_id, Tail(owned_skin_ids))

\* "if skin['id'] in owned_skin_ids": membership in the list of owned ids
OwnedStep(acc, skin, champion_id, owned_skin_ids) ==
    IF \E j \in 1..Len(owned_skin_ids) : owned_skin_ids[j] = skin.id
    THEN Increment(acc, champion_id)
    ELSE acc

RECURSIVE OwnedSkinLoop(_, _, _, _)
OwnedSkinLoop(skins, champion_id, owned_skin_ids, acc) ==
    IF skins = << >> THEN acc
    ELSE OwnedSkinLoop(Tail(skins), champion_id, owned_skin_ids,
                       OwnedStep(acc, Head(skins), champion_id, owned_skin_ids))

RECURSIVE OwnedLoop(_, _, _, _)
OwnedLoop(sbk, cj, owned_skin_ids, acc) ==
    IF sbk = << >> THEN acc
    ELSE OwnedLoop(Tail(sbk), cj, owned_skin_ids,
                   OwnedSkinLoop(Head(sbk).v, Subscript(cj, Head(sbk).k).id,
                                 owned_skin_ids, acc))

get_owned_skins_by_champion_id(sbk, cj, owned) ==
    OwnedLoop(sbk, cj, [j \in 1..Len(owned) |-> owned[j].itemId], EmptyDict)

\* A variant of Row whose total adds the variant count instead of the owned
\* count.
RowTotalOfSkins(cj, champion_key, skins, unowned, owned) ==
    LET champion_id == Subscript(cj, champion_key).id
        unowned_skin_shards ==
            IF champion_id \in DOMAIN unowned THEN unowned[champion_id] ELSE 0
    IN  [name |-> Subscript(cj, champion_key).name, amount |-> Len(skins),
         unowned |-> unowned_skin_shards, total |-> Len(skins) + unowned_skin_shards]

\* one row of the table, challenges.py:45-58
Row(cj, champion_key, skins, unowned, owned) ==
    LET champion_name == Subscript(cj, champion_key).name
        champion_id == Subscript(cj, champion_key).id
        unowned_skin_shards ==
            IF champion_id \in DOMAIN unowned THEN unowned[champion_id] ELSE 0
        owned_skin_count ==
            IF champion_id \in DOMAIN owned THEN owned[champion_id] ELSE 0
        total_sum == owned_skin_count + unowned_skin_shards
    IN  [name |-> champion_name, amount |-> Len(skins),
         unowned |-> unowned_skin_shards, total |-> total_sum]

\* A variant of Rows that leaves out the entities whose total is 0.
RowsSkipZero(cj, sbk, unowned, owned) ==
    SelectSeq([i \in 1..Len(sbk) |-> Row(cj, sbk[i].k, sbk[i].v, unowned, owned)],
              LAMBDA r : r.total # 0)

\* the for loop of challenges.py:44-58
Rows(cj, sbk, unowned, owned) ==
    [i \in 1..Len(sbk) |-> Row(cj, sbk[i].k, sbk[i].v, unowned, owned)]

Columns == <<"Champion Name", "Amount of Skins", "Unowned Skin Shards", "Total Sum">>

ChallengesSuccess == "Success: Statistics was shown."

----------------------------------------------------------------------------
(* shards.py: the tier report.                                             *)

\* [item for item in player_loot if item["displayCategories"] == "SKIN"]
RECURSIVE SkinShards(_)
SkinShards(player_loot) ==
    IF player_loot = << >> THEN << >>
    ELSE IF Head(player_loot).displayCategories = "SKIN"
         THEN <<Head(player_loot)>> \o SkinShards(Tail(player_loot))
         ELSE SkinShards(Tail(player_loot))

\* {k: {"owned": 0, "not_owned": 0} for k in shard_prices}
ZeroCategories(skin_shards) ==
    [k \in {skin_shards[i].value : i \in 1..Len(skin_shards)} |->
        [owned |-> 0, not_owned |-> 0]]

\* A variant of ShardStep without line 34 (the remainder of a convertible
\* record's count is dropped).
ShardStepNoRemainder(cats, shard) ==
    IF shard.itemStatus = "OWNED"
    THEN [cats EXCEPT ![shard.value].owned = @ + shard.count]
    ELSE [cats EXCEPT ![shard.value].not_owned = @ + 1]

\* the body of "for shard in skin_shards"
ShardStep(cats, shard) ==
    IF shard.itemStatus = "OWNED"
    THEN [cats EXCEPT ![shard.value].owned = @ + shard.count]
    ELSE [cats EXCEPT ![shard.value].not_owned = @ + 1,
                      ![shard.value].owned = @ + shard.count - 1]

RECURSIVE ShardLoop(_, _)
ShardLoop(skin_shards, cats) ==
    IF skin_shards = << >> THEN cats
    ELSE ShardLoop(Tail(skin_shards), ShardStep(cats, Head(skin_shards)))

Categorize(player_loot) ==
    LET skin_shards == SkinShards(player_loot)
    IN  ShardLoop(skin_shards, ZeroCategories(skin_shards))

\* pprint.pformat(dict): the entries in ascending key order
RECURSIVE PFormatKeys(_, _)
PFormatKeys(cats, keys) ==
    IF keys = {} THEN << >>
    ELSE LET k == CHOOSE x \in keys : \A y \in keys : x <= y
         IN  <<[tier |-> k, owned |-> cats[k].owned, not_owned |-> cats[k].not_owned]>>
             \o PFormatKeys(cats, keys \ {k})

PFormat(cats) == PFormatKeys(cats, DOMAIN cats)

ShardsSuccess == "Success: Statistic was shown."

----------------------------------------------------------------------------
(* import_from_json.py                                                      *)

Items == <<"game-settings", "input-settings">>

FileContents == {"missing", "corrupt", "saved_a", "saved_b"}

Loadable(content) == content \notin {"missing", "corrupt"}

\* what awaiting connection.request can give: a response with a status, or
\* an exception
Outcomes == {"status_204", "status_400", "status_500", "raise"}

----------------------------------------------------------------------------
(* Initial states: one script, one set of served documents.  The entity    *)
(* report is run over every catalog with the short loot feeds and every    *)
(* owned-items feed, and over the scenario catalog with every loot feed.   *)

ChallengeInputs ==
    (Catalogs \X SmallLoots \X OwnedDocs)
    \cup ({ScenarioCatalog} \X SeqsUpTo(EntityPathRecords, MaxLoot)
                            \X {<< >>, <<[itemId |-> 266001]>>})

ShardInputs == SeqsUpTo(TierPathRecords, MaxLoot)

Locals ==
    /\ run = 1
    /\ fetched = {}
    /\ champ_json = << >>
    /\ skins_by_champion_key = << >>
    /\ unowned_shards_by_champion_id = EmptyDict
    /\ owned_skins_by_champion_id = EmptyDict
    /\ table = << >>
    /\ shard_categories = EmptyDict
    /\ outputs = << >>
    /\ result = "none"
    /\ item = 1
    /\ data = "none"
    /\ requests = << >>

InitChallenges ==
    /\ script = "challenges"
    /\ pc = "catalog"
    /\ \E in \in ChallengeInputs :
          /\ catalogDoc = in[1]
          /\ lootDoc = in[2]
          /\ ownedDoc = in[3]
    /\ backupFiles = [i \in 1..2 |-> "missing"]
    /\ clientSettings = [i \in 1..2 |-> "current"]
    /\ Locals

InitShards ==
    /\ script = "shards"
    /\ pc = "loot"
    /\ catalogDoc = << >>
    /\ lootDoc \in ShardInputs
    /\ ownedDoc = << >>
    /\ backupFiles = [i \in 1..2 |-> "missing"]
    /\ clientSettings = [i \in 1..2 |-> "current"]
    /\ Locals

InitSettings ==
    /\ script = "settings"
    /\ pc = "load"
    /\ catalogDoc = << >>
    /\ lootDoc = << >>
    /\ ownedDoc = << >>
    /\ backupFiles \in [1..2 -> FileContents]
    /\ clientSettings = [i \in 1..2 |-> "current"]
    /\ Locals

Init == InitChallenges \/ InitShards \/ InitSettings

----------------------------------------------------------------------------
(* ChallengeCollectionStats.callback, one action per statement group.  An  *)
(* await that raises ends the invocation: nothing in callback catches.     *)

served   == <<script, catalogDoc, lootDoc, ownedDoc, backupFiles>>
settings == <<item, data, requests, clientSettings>>

\* challenges.py:30-33
FetchCatalog ==
    /\ script = "challenges" /\ pc = "catalog"
    /\ \E ok \in BOOLEAN :
          IF ok
          THEN /\ champ_json' = catalogDoc
               /\ fetched' = fetched \cup {"catalog"}
               /\ pc' = "skins"
          ELSE /\ pc' = "failed"
               /\ UNCHANGED <<champ_json, fetched>>
    /\ UNCHANGED <<served, settings, run, skins_by_champion_key,
                   unowned_shards_by_champion_id, owned_skins_by_champion_id,
                   table, shard_categories, outputs, result>>

\* challenges.py:35
GetSkinsByChampionKey ==
    /\ script = "challenges" /\ pc = "skins"
    /\ skins_by_champion_key' = get_skins_by_champion_key(champ_json)
    /\ pc' = "loot"
    /\ UNCHANGED <<served, settings, run, fetched, champ_json,
                   unowned_shards_by_champion_id, owned_skins_by_champion_id,
                   table, shard_categories, outputs, result>>

\* A variant of GetUnownedShardsByChampionId that catches a failed loot fetch
\* and goes on with an empty mapping.
GetUnownedShardsSwallow ==
    /\ script = "challenges" /\ pc = "loot"
    /\ \E ok \in BOOLEAN :
          /\ unowned_shards_by_champion_id' =
                 IF ok THEN get_unowned_shards_by_champion_id(lootDoc) ELSE EmptyDict
          /\ fetched' = IF ok THEN fetched \cup {"loot"} ELSE fetched
          /\ pc' = "owned"
    /\ UNCHANGED <<served, settings, run, champ_json, skins_by_champion_key,
                   owned_skins_by_champion_id, table, shard_categories, outputs,
                   result>>

\* challenges.py:36
GetUnownedShardsByChampionId ==
    /\ script = "challenges" /\ pc = "loot"
    /\ \E ok \in BOOLEAN :
          IF ok
          THEN /\ unowned_shards_by_champion_id' =
                      get_unowned_shards_by_champion_id(lootDoc)
               /\ fetched' = fetched \cup {"loot"}
               /\ pc' = "owned"
          ELSE /\ pc' = "failed"
               /\ UNCHANGED <<unowned_shards_by_champion_id, fetched>>
    /\ UNCHANGED <<served, settings, run, champ_json, skins_by_champion_key,
                   owned_skins_by_champion_id, table, shard_categories, outputs,
                   result>>

\* challenges.py:37-40
GetOwnedSkinsByChampionId ==
    /\ script = "challenges" /\ pc = "owned"
    /\ \E ok \in BOOLEAN :
          IF ok
          THEN /\ owned_skins_by_champion_id' =
                      get_owned_skins_by_champion_id(skins_by_champion_key,
                                                     champ_json, ownedDoc)
               /\ fetched' = fetched \cup {"owned"}
               /\ pc' = "table"
          ELSE /\ pc' = "failed"
               /\ UNCHANGED <<owned_skins_by_champion_id, fetched>>
    /\ UNCHANGED <<served, settings, run, champ_json, skins_by_champion_key,
                   unowned_shards_by_champion_id, table, shard_categories,
                   outputs, result>>

\* challenges.py:42-58
BuildTable ==
    /\ script = "challenges" /\ pc = "table"
    /\ table' = Rows(champ_json, skins_by_champion_key,
                     unowned_shards_by_champion_id, owned_skins_by_champion_id)
    /\ pc' = "output"
    /\ UNCHANGED <<served, settings, run, fetched, champ_json,
                   skins_by_champion_key, unowned_shards_by_champion_id,
                   owned_skins_by_champion_id, shard_categories, outputs,
                   result>>

\* challenges.py:60-62
Output ==
    /\ script = "challenges" /\ pc = "output"
    /\ outputs' = Append(outputs, [columns |-> Columns, rows |-> table])
    /\ result' = ChallengesSuccess
    /\ pc' = "done"
    /\ UNCHANGED <<served, settings, run, fetched, champ_json,
                   skins_by_champion_key, unowned_shards_by_champion_id,
                   owned_skins_by_champion_id, table, shard_categories>>

----------------------------------------------------------------------------
(* SkinShardsStats.callback                                                *)

\* shards.py:21-34
CategorizeShards ==
    /\ script = "shards" /\ pc = "loot"
    /\ \E ok \in BOOLEAN :
          IF ok
          THEN /\ shard_categories' = Categorize(lootDoc)
               /\ fetched' = fetched \cup {"loot"}
               /\ pc' = "output"
          ELSE /\ pc' = "failed"
               /\ UNCHANGED <<shard_categories, fetched>>
    /\ UNCHANGED <<served, settings, run, champ_json, skins_by_champion_key,
                   unowned_shards_by_champion_id, owned_skins_by_champion_id,
                   table, outputs, result>>

\* shards.py:36-37
PrintShards ==
    /\ script = "shards" /\ pc = "output"
    /\ outputs' = Append(outputs, PFormat(shard_categories))
    /\ result' = ShardsSuccess
    /\ pc' = "done"
    /\ UNCHANGED <<served, settings, run, fetched, champ_json,
                   skins_by_champion_key, unowned_shards_by_champion_id,
                   owned_skins_by_champion_id, table, shard_categories>>

----------------------------------------------------------------------------
(* The script is started again over the same served documents.  Nothing is *)
(* cleared here: what a second invocation starts from is whatever the      *)
(* callback itself assigns.                                                *)

Rerun ==
    /\ script \in {"challenges", "shards"} /\ pc = "done" /\ run = 1
    /\ run' = 2
    /\ fetched' = {}
    /\ result' = "none"
    /\ pc' = IF script = "challenges" THEN "catalog" ELSE "loot"
    /\ UNCHANGED <<served, settings, champ_json, skins_by_champion_key,
                   unowned_shards_by_champion_id, owned_skins_by_champion_id,
                   table, shard_categories, outputs>>

----------------------------------------------------------------------------
(* worker_func                                                             *)

challenge == <<run, fetched, champ_json, skins_by_champion_key,
               unowned_shards_by_champion_id, owned_skins_by_champion_id,
               table, shard_categories, result>>

\* import_from_json.py:14-16, up to the await: open, json.load, send
LoadAndRequest ==
    /\ script = "settings" /\ pc = "load"
    /\ IF Loadable(backupFiles[item])
       THEN /\ data' = backupFiles[item]
            /\ requests' = Append(requests, [method |-> "patch", item |-> Items[item],
                                             data |-> backupFiles[item]])
            /\ pc' = "await"
       ELSE /\ pc' = "failed"
            /\ UNCHANGED <<data, requests>>
    /\ UNCHANGED <<served, challenge, item, clientSettings, outputs>>

\* A variant of ReceiveResponse that catches the exception of a failed
\* request and goes on with the next item.
ReceiveResponseSwallow ==
    /\ script = "settings" /\ pc = "await"
    /\ \E outcome \in Outcomes, applied \in BOOLEAN :
          /\ outcome = "status_204" => applied
          /\ outcome \in {"status_400", "status_500"} => ~applied
          /\ clientSettings' =
                IF applied THEN [clientSettings EXCEPT ![item] = data]
                           ELSE clientSettings
          /\ outputs' = IF outcome = "raise" THEN outputs
                        ELSE Append(outputs, [item |-> Items[item], status |-> outcome])
          /\ IF item < Len(Items)
             THEN item' = item + 1 /\ pc' = "load"
             ELSE item' = item /\ pc' = "done"
    /\ UNCHANGED <<served, challenge, data, requests>>

\* import_from_json.py:16-17, from the await on: the client has applied the
\* PATCH when it answers 204, has not when it answers an error status, and
\* may or may not have when the await raises
ReceiveResponse ==
    /\ script = "settings" /\ pc = "await"
    /\ \E outcome \in Outcomes, applied \in BOOLEAN :
          /\ outcome = "status_204" => applied
          /\ outcome \in {"status_400", "status_500"} => ~applied
          /\ clientSettings' =
                IF applied THEN [clientSettings EXCEPT ![item] = data]
                           ELSE clientSettings
          /\ IF outcome = "raise"
             THEN /\ pc' = "failed"
                  /\ UNCHANGED <<item, outputs>>
             ELSE /\ outputs' = Append(outputs, [item |-> Items[item], status |-> outcome])
                  /\ IF item < Len(Items)
                     THEN item' = item + 1 /\ pc' = "load"
                     ELSE item' = item /\ pc' = "done"
    /\ UNCHANGED <<served, challenge, data, requests>>

----------------------------------------------------------------------------
Next ==
    \/ FetchCatalog
    \/ GetSkinsByChampionKey
    \/ GetUnownedShardsByChampionId
    \/ GetOwnedSkinsByChampionId
    \/ BuildTable
    \/ Output
    \/ CategorizeShards
    \/ PrintShards
    \/ Rerun
    \/ LoadAndRequest
    \/ ReceiveResponse

Spec == Init /\ [][Next]_vars

----------------------------------------------------------------------------
(* Properties.  Each is stated over the served documents, not through the  *)
(* operators above.                                                        *)

AllFetches == {"catalog", "loot", "owned"}

Get(m, k) == IF k \in DOMAIN m THEN m[k] ELSE 0

LastOutput == outputs[Len(outputs)]

NonBase(skins) == {j \in 1..Len(skins) : ~skins[j].isBase}

\* loot records of the entity-report path for parent id p
Convertible(loot, p) ==
    {i \in 1..Len(loot) : /\ loot[i].parentStoreItemId = p
                          /\ loot[i].itemStatus # "OWNED"
                          /\ loot[i].disenchantRecipeName = RENTAL}

\* non-base variants of an entity that the owned-items document names
OwnedVariants(e, owned) ==
    {j \in NonBase(e.skins) : \E x \in 1..Len(owned) : owned[x].itemId = e.skins[j].id}

ParentIds(loot) == {loot[i].parentStoreItemId : i \in 1..Len(loot)}

CatalogIds(cj) == {cj[i].id : i \in 1..Len(cj)}

\* sum of f over a finite set of indices
RECURSIVE SumOver(_, _)
SumOver(I, f) ==
    IF I = {} THEN 0
    ELSE LET i == CHOOSE x \in I : TRUE IN f[i] + SumOver(I \ {i}, f)

\* SKIN records of price tier t
TierRecords(loot, t) ==
    {i \in 1..Len(loot) : loot[i].displayCategories = "SKIN" /\ loot[i].value = t}

TableBuilt == script = "challenges" /\ pc \in {"output", "done"}

----------------------------------------------------------------------------
\* C1 (join completeness): once the table is built it has exactly one row
\* per entry of the catalog, row i being that of the i-th catalog entity,
\* and an entity with no owned variant and no convertible shard has a row
\* with total 0; the emitted report carries exactly these rows.
C1_JoinCompleteness ==
    TableBuilt =>
        /\ Len(table) = Len(catalogDoc)
        /\ \A i \in 1..Len(catalogDoc) :
              /\ table[i].name = catalogDoc[i].name
              /\ (/\ OwnedVariants(catalogDoc[i], ownedDoc) = {}
                  /\ Convertible(lootDoc, catalogDoc[i].id) = {})
                 => table[i].total = 0
        /\ pc = "done" => LastOutput.rows = table

C1_Witness ==
    /\ script = "challenges" /\ pc = "done"
    /\ Len(catalogDoc) = 2
    /\ catalogDoc[1].key = "MonkeyKing"
    /\ lootDoc # << >> /\ ownedDoc # << >>
    /\ LastOutput.rows[1].total = 0
    /\ LastOutput.rows[2].total > 0

\* C2 (owned-count bound): after get_owned_skins_by_champion_id the owned
\* count of every catalog entity's numeric id is at most the number of its
\* non-default variants, repeated ids in the owned-items list included.
C2_OwnedCountBound ==
    (script = "challenges" /\ pc = "table") =>
        \A i \in 1..Len(catalogDoc) :
            Get(owned_skins_by_champion_id, catalogDoc[i].id)
                <= Cardinality(NonBase(catalogDoc[i].skins))

C2_Witness ==
    /\ script = "challenges" /\ pc = "table"
    /\ Len(ownedDoc) = 2 /\ ownedDoc[1] = ownedDoc[2]
    /\ \E i \in 1..Len(catalogDoc) :
          /\ Cardinality(NonBase(catalogDoc[i].skins)) = 1
          /\ Len(catalogDoc[i].skins) = 2
          /\ Get(owned_skins_by_champion_id, catalogDoc[i].id) = 1

\* C3 (tier accounting identity): when every loot record has count >= 1,
\* every tier t of the tier report has owned[t] + not_owned[t] equal to the
\* sum of the counts of the SKIN records of value t, not_owned[t] being the
\* number of non-OWNED ones and owned[t] the OWNED counts plus count - 1 of
\* each non-OWNED one; the printed report carries the same counters.
C3_TierAccounting ==
    (/\ script = "shards" /\ pc \in {"output", "done"}
     /\ \A i \in 1..Len(lootDoc) : lootDoc[i].count >= 1) =>
        /\ \A t \in DOMAIN shard_categories :
              LET recs == TierRecords(lootDoc, t)
                  conv == {i \in recs : lootDoc[i].itemStatus # "OWNED"}
                  counts == [i \in recs |-> lootDoc[i].count]
              IN  /\ shard_categories[t].owned + shard_categories[t].not_owned
                        = SumOver(recs, counts)
                  /\ shard_categories[t].not_owned = Cardinality(conv)
                  /\ shard_categories[t].owned
                        = SumOver(recs \ conv, counts)
                          + SumOver(conv, [i \in conv |-> lootDoc[i].count - 1])
        /\ pc = "done" =>
              \A j \in 1..Len(LastOutput) :
                  /\ LastOutput[j].tier \in DOMAIN shard_categories
                  /\ LastOutput[j].owned = shard_categories[LastOutput[j].tier].owned
                  /\ LastOutput[j].not_owned
                        = shard_categories[LastOutput[j].tier].not_owned

C3_Witness ==
    /\ script = "shards" /\ pc = "done"
    /\ Len(lootDoc) = 2
    /\ lootDoc[1].itemStatus = "OWNED" /\ lootDoc[1].count = 2
    /\ lootDoc[2].itemStatus # "OWNED" /\ lootDoc[2].count = 2
    /\ lootDoc[1].value = lootDoc[2].value
    /\ LastOutput = <<[tier |-> lootDoc[1].value, owned |-> 3, not_owned |-> 1]>>

\* C4 (exclusion invariant): after get_skins_by_champion_key every catalog
\* entity's key maps to exactly one list, which holds no variant with
\* isBase = TRUE, wherever it sits, and every other variant of the entity
\* once, in catalog order.
C4_BaseExcluded ==
    (script = "challenges" /\ pc = "loot") =>
        \A i \in 1..Len(catalogDoc) :
            LET hits == {j \in 1..Len(skins_by_champion_key) :
                            skins_by_champion_key[j].k = catalogDoc[i].key}
            IN  /\ Cardinality(hits) = 1
                /\ \A j \in hits :
                      LET kept == skins_by_champion_key[j].v
                      IN  /\ \A x \in 1..Len(kept) : ~kept[x].isBase
                          /\ kept = SelectSeq(catalogDoc[i].skins,
                                              LAMBDA sk : ~sk.isBase)

C4_Witness ==
    /\ script = "challenges" /\ pc = "loot"
    /\ Len(catalogDoc) = 2
    /\ Len(catalogDoc[1].skins) = 2
    /\ ~catalogDoc[1].skins[1].isBase /\ catalogDoc[1].skins[2].isBase
    /\ Len(skins_by_champion_key[1].v) = 1

\* C5 (zero-count anomaly surfaced): the printed tier report consists of
\* the two counters of each tier and nothing else, so an anomaly would have
\* no signal to accompany it; the claim then requires that no printed owned
\* counter is negative.
C5_NoSilentNegativeOwned ==
    (script = "shards" /\ pc = "done") =>
        \A j \in 1..Len(LastOutput) : LastOutput[j].owned >= 0

\* C6 (join barrier, no partial report): rows are added, the report is
\* emitted and the success message is returned only in an invocation whose
\* three fetches have all completed; an invocation in which a fetch failed
\* has emitted nothing and returned nothing.
C6_BarrierState ==
    script = "challenges" =>
        /\ (run = 1 /\ table # << >>) => fetched = AllFetches
        /\ pc \in {"output", "done"} => fetched = AllFetches
        /\ Len(outputs) = (IF pc = "done" THEN run ELSE run - 1)
        /\ result = ChallengesSuccess => (pc = "done" /\ fetched = AllFetches)
        /\ pc = "failed" =>
              /\ fetched # AllFetches
              /\ result # ChallengesSuccess
              /\ Len(outputs) = run - 1

C6_BarrierStep ==
    (script = "challenges" /\ (table' # table \/ outputs' # outputs \/ result' # result))
        => (fetched = AllFetches \/ (pc = "done" /\ result' = "none" /\ outputs' = outputs))

C6_JoinBarrier == []C6_BarrierState /\ [][C6_BarrierStep]_vars

C6_Witness ==
    /\ script = "challenges" /\ pc = "failed" /\ run = 1
    /\ fetched = {"catalog", "loot"}
    /\ Len(catalogDoc) = 2 /\ lootDoc # << >> /\ ownedDoc # << >>
    /\ unowned_shards_by_champion_id # EmptyDict
    /\ table = << >> /\ outputs = << >> /\ result = "none"

\* C7 (unowned-path filter): after get_unowned_shards_by_champion_id the
\* value for every parent id is the number of loot records with that
\* parentStoreItemId that are not OWNED and have disenchantRecipeName
\* "SKIN_RENTAL_disenchant", whatever their count; the mapping has an entry
\* for no other parent id.
C7_UnownedFilter ==
    (script = "challenges" /\ pc = "owned") =>
        /\ \A p \in ParentIds(lootDoc) \cup CatalogIds(catalogDoc) :
              Get(unowned_shards_by_champion_id, p)
                  = Cardinality(Convertible(lootDoc, p))
        /\ DOMAIN unowned_shards_by_champion_id
              = {p \in ParentIds(lootDoc) : Convertible(lootDoc, p) # {}}

C7_Witness ==
    /\ script = "challenges" /\ pc = "owned"
    /\ Len(lootDoc) = 2
    /\ lootDoc[1].parentStoreItemId = 266 /\ lootDoc[2].parentStoreItemId = 266
    /\ lootDoc[1].itemStatus = "NONE" /\ lootDoc[1].disenchantRecipeName = RENTAL
    /\ lootDoc[1].count = MaxCount
    /\ lootDoc[2].itemStatus = "NONE" /\ lootDoc[2].disenchantRecipeName = "null"
    /\ unowned_shards_by_champion_id[266] = 1

\* C8 (derived total): in every row the variant count, the unowned count
\* and the total are non-negative, and the total is the owned count plus
\* the unowned count recorded for that entity's numeric id, 0 standing for
\* an absent entry; the rows are those obtained from the loot feed with the
\* records of unknown parents removed.
C8_DerivedTotal ==
    TableBuilt =>
        /\ \A i \in 1..Len(table) :
              /\ table[i].amount \in Nat
              /\ table[i].unowned \in Nat
              /\ table[i].total \in Nat
              /\ table[i].unowned = Get(unowned_shards_by_champion_id, catalogDoc[i].id)
              /\ table[i].total = Get(owned_skins_by_champion_id, catalogDoc[i].id)
                                  + Get(unowned_shards_by_champion_id, catalogDoc[i].id)
              /\ table[i].unowned = Cardinality(Convertible(lootDoc, catalogDoc[i].id))
              /\ table[i].total = Cardinality(OwnedVariants(catalogDoc[i], ownedDoc))
                                  + Cardinality(Convertible(lootDoc, catalogDoc[i].id))
        /\ table = Rows(champ_json, skins_by_champion_key,
                        get_unowned_shards_by_champion_id(
                            SelectSeq(lootDoc, LAMBDA r :
                                r.parentStoreItemId \in CatalogIds(catalogDoc))),
                        owned_skins_by_champion_id)

C8_Witness ==
    /\ script = "challenges" /\ pc = "done"
    /\ Len(lootDoc) = 2
    /\ Convertible(lootDoc, 777) # {} /\ Convertible(lootDoc, 266) # {}
    /\ ownedDoc # << >>
    /\ LastOutput.rows = << [name |-> "Aatrox", amount |-> 1, unowned |-> 1, total |-> 2],
                            [name |-> "Wukong", amount |-> 0, unowned |-> 0, total |-> 0] >>

\* C9 (idempotence): a second invocation over the same served documents
\* emits the same report as the first, rows and order included, for the
\* entity report and for the tier report alike.
C9_Idempotent ==
    (script \in {"challenges", "shards"} /\ run = 2 /\ pc = "done") =>
        /\ Len(outputs) = 2
        /\ outputs[2] = outputs[1]

C9_Witness ==
    /\ script = "challenges" /\ run = 2 /\ pc = "done"
    /\ Len(outputs) = 2
    /\ Len(outputs[2].rows) = 2
    /\ outputs[2].rows[1].unowned = 2
    /\ outputs[2].rows[1].total = 3

\* C10 (settings restore ordering): worker_func issues at most two PATCH
\* requests, game-settings then input-settings, the second only after the
\* response to the first has been received; when loading the game-settings
\* backup fails or its request raises, no input-settings request is issued;
\* game settings the client has applied are never changed again, whatever
\* happens to the input-settings step.
C10_OrderState ==
    script = "settings" =>
        /\ Len(requests) <= 2
        /\ \A i \in 1..Len(requests) :
              requests[i].method = "patch" /\ requests[i].item = Items[i]
        /\ Len(requests) = 2 =>
              (Len(outputs) >= 1 /\ outputs[1].item = "game-settings")
        /\ (pc = "failed" /\ item = 1) => Len(requests) <= 1
        /\ (pc = "failed" /\ item = 1 /\ ~Loadable(backupFiles[1])) => requests = << >>

C10_NoRollback ==
    (script = "settings" /\ clientSettings[1] # "current")
        => clientSettings'[1] = clientSettings[1]

====
